---------------------------- MODULE Spec2Model ----------------------------
(***************************************************************************)
(* The minsk parser (minsk-language/src/code_analysis/syntax/parser.rs)   *)
(* as a state machine.  The recursive-descent functions run on an explicit *)
(* call stack: one frame per active call, one action per function.  A      *)
(* frame's pc is the number of calls the function has already made.        *)
(***************************************************************************)
EXTENDS Naturals, Sequences, FiniteSets

(***************************************************************************)
(* Bounds of the model.                                                    *)
(***************************************************************************)
\* longest source text taken from every combination of token kinds
MaxLen == 2
\* longest chain x1 = x2 = ... = xn = e
MaxChain == 3
\* most statements inside a generated block
MaxBlock == 2
\* largest lookahead offset tried on peek (the parser itself uses 0 and 1)
MaxOffset == 3

(***************************************************************************)
(* SyntaxKind: the token kinds the lexer can hand to the parser.           *)
(***************************************************************************)
BinaryOperators == {"Plus", "Minus", "Star", "Slash"}

UnaryOperators == {"Plus", "Minus"}

ParserKinds ==
    BinaryOperators \cup
    {"OpenParenthesis", "CloseParenthesis", "OpenBrace", "CloseBrace",
     "Equals", "Identifier", "Number", "TrueKeyword", "FalseKeyword",
     "LetKeyword", "VarKeyword", "ForKeyword", "ToKeyword", "IfKeyword",
     "ElseKeyword", "WhileKeyword"}

\* what the lexer yields before the end of the text
SourceKinds == ParserKinds \cup {"Whitespace", "BadToken"}

Kinds == SourceKinds \cup {"EndOfFile"}

\* SyntaxFacts::binary_operator_precedence
BinaryOperatorPrecedence(kind) ==
    CASE kind \in {"Star", "Slash"} -> 2
      [] kind \in {"Plus", "Minus"} -> 1
      [] OTHER -> 0

\* unary operators given the precedence of the additive binary operators
UnaryOperatorPrecedenceLow(kind) ==
    CASE kind \in {"Plus", "Minus"} -> 1
      [] OTHER -> 0

\* SyntaxFacts::unary_operator_precedence
UnaryOperatorPrecedence(kind) ==
    CASE kind \in {"Plus", "Minus"} -> 3
      [] OTHER -> 0

(***************************************************************************)
(* Tokens.  Option<T> is a record: None, or Some(v) holding v.             *)
(***************************************************************************)
None == [some |-> FALSE]

Some(v) == [some |-> TRUE, value |-> v]

\* SyntaxToken::new(kind, position, text, value); the span covers the text
SyntaxToken(kind, position, text, value) ==
    [kind |-> kind, position |-> position, text |-> text, value |-> value,
     span |-> [start |-> position, length |-> Len(text)]]

\* the text of a lexeme of each kind (one representative identifier, number
\* and bad character)
TextOf(kind) ==
    CASE kind = "Plus" -> "+"
      [] kind = "Minus" -> "-"
      [] kind = "Star" -> "*"
      [] kind = "Slash" -> "/"
      [] kind = "OpenParenthesis" -> "("
      [] kind = "CloseParenthesis" -> ")"
      [] kind = "OpenBrace" -> "{"
      [] kind = "CloseBrace" -> "}"
      [] kind = "Equals" -> "="
      [] kind = "Identifier" -> "a"
      [] kind = "Number" -> "1"
      [] kind = "TrueKeyword" -> "true"
      [] kind = "FalseKeyword" -> "false"
      [] kind = "LetKeyword" -> "let"
      [] kind = "VarKeyword" -> "var"
      [] kind = "ForKeyword" -> "for"
      [] kind = "ToKeyword" -> "to"
      [] kind = "IfKeyword" -> "if"
      [] kind = "ElseKeyword" -> "else"
      [] kind = "WhileKeyword" -> "while"
      [] kind = "Whitespace" -> " "
      [] kind = "BadToken" -> "$"
      [] OTHER -> ""

\* the decoded literal value the lexer attaches to a token
ValueOf(kind) ==
    IF kind = "Number" THEN Some([tag |-> "Integer", int |-> 1]) ELSE None

RECURSIVE OffsetOf(_, _)
\* where the i-th lexeme of the text starts: lexemes lie back to back
OffsetOf(src, i) ==
    IF i = 1 THEN 0 ELSE OffsetOf(src, i - 1) + Len(TextOf(src[i - 1]))

\* Lexer::next_token called to exhaustion: one token per lexeme, then
\* EndOfFile
LexerTokens(src) ==
    [i \in 1..(Len(src) + 1) |->
        IF i <= Len(src)
        THEN SyntaxToken(src[i], OffsetOf(src, i), TextOf(src[i]), ValueOf(src[i]))
        ELSE SyntaxToken("EndOfFile", OffsetOf(src, i), "", None)]

\* DiagnosticBag::report_bad_character
BadCharacter(token) == [span |-> token.span, message |-> "bad_character"]

RECURSIVE LexerDiagnosticsUpTo(_, _)
LexerDiagnosticsUpTo(toks, n) ==
    IF n = 0 THEN << >>
    ELSE IF toks[n].kind = "BadToken"
         THEN Append(LexerDiagnosticsUpTo(toks, n - 1), BadCharacter(toks[n]))
         ELSE LexerDiagnosticsUpTo(toks, n - 1)

\* Lexer::diagnostics after the lexer ran to the end: one entry per bad
\* character, in source order
LexerDiagnostics(src) == LexerDiagnosticsUpTo(LexerTokens(src), Len(src))

\* the diagnostic of report_unexpected_token(span, actual_kind,
\* expected_kind)
UnexpectedToken(span, actual, expected) ==
    [span |-> span, message |-> "unexpected_token",
     actual |-> actual, expected |-> expected]

\* a bag that puts the new diagnostic in front of the earlier ones
ReportInFront(bag, span, actual, expected) ==
    <<UnexpectedToken(span, actual, expected)>> \o bag

\* DiagnosticBag::report_unexpected_token: the bag with the diagnostic
\* added at its end
ReportUnexpectedToken(bag, span, actual, expected) ==
    Append(bag, UnexpectedToken(span, actual, expected))

(***************************************************************************)
(* Source texts the parser is run on, as sequences of lexeme kinds.        *)
(***************************************************************************)
RECURSIVE SeqsOfLen(_, _)
SeqsOfLen(S, n) ==
    IF n = 0 THEN {<< >>}
    ELSE {Append(s, k) : s \in SeqsOfLen(S, n - 1), k \in S}

\* every text of at most MaxLen lexemes
ShortInputs == UNION {SeqsOfLen(SourceKinds, n) : n \in 0..MaxLen}

\* a op1 b op2 c
BinaryPairInput(op1, op2) ==
    <<"Identifier", op1, "Identifier", op2, "Identifier">>

BinaryPairInputs ==
    {BinaryPairInput(op1, op2) : op1 \in BinaryOperators, op2 \in BinaryOperators}

\* u a op b
UnaryPairInput(u, op) == <<u, "Identifier", op, "Identifier">>

UnaryPairInputs ==
    {UnaryPairInput(u, op) : u \in UnaryOperators, op \in BinaryOperators}

\* expressions that are not assignments
PlainExpressions ==
    {<<"Number">>, <<"Identifier">>, <<"TrueKeyword">>,
     <<"Identifier", "Plus", "Number">>, <<"Minus", "Number">>,
     <<"OpenParenthesis", "Number", "CloseParenthesis">>,
     <<"Number", "Star", "Number", "Plus", "Number">>}

RECURSIVE ChainInput(_, _)
\* x1 = x2 = ... = xn = e
ChainInput(n, e) ==
    IF n = 0 THEN e ELSE <<"Identifier", "Equals">> \o ChainInput(n - 1, e)

ChainInputs == {ChainInput(n, e) : n \in 1..MaxChain, e \in PlainExpressions}

\* statements put inside blocks; the last three consume no token
BlockItems ==
    {<<"LetKeyword", "Identifier", "Equals", "Number">>,
     <<"VarKeyword", "Identifier", "Equals", "Number">>,
     <<"Identifier">>,
     <<"OpenBrace", "CloseBrace">>,
     <<"CloseParenthesis">>, <<"Equals">>, <<"ElseKeyword">>}

RECURSIVE Flatten(_)
Flatten(ss) == IF ss = << >> THEN << >> ELSE Head(ss) \o Flatten(Tail(ss))

\* { s1 ... sn   with and without the closing brace
BlockInputs ==
    {<<"OpenBrace">> \o Flatten(items) \o close :
        items \in UNION {SeqsOfLen(BlockItems, n) : n \in 0..MaxBlock},
        close \in {<< >>, <<"CloseBrace">>}}

\* well-formed compound statements, and some with trailing tokens
StatementInputs ==
    {<<"IfKeyword", "TrueKeyword", "Identifier">>,
     <<"IfKeyword", "TrueKeyword", "Identifier", "ElseKeyword", "Number">>,
     <<"IfKeyword", "Identifier", "IfKeyword", "Identifier", "Identifier",
       "ElseKeyword", "Identifier">>,
     <<"WhileKeyword", "FalseKeyword", "OpenBrace", "CloseBrace">>,
     <<"WhileKeyword", "Identifier", "Identifier", "Equals", "Number">>,
     <<"ForKeyword", "Identifier", "Equals", "Number", "ToKeyword", "Number",
       "Identifier">>,
     <<"ForKeyword", "Identifier", "Equals", "Number", "ToKeyword", "Number",
       "OpenBrace", "Identifier", "CloseBrace">>,
     <<"Number", "Whitespace", "Plus", "BadToken", "Number">>,
     <<"Number", "Number", "Number">>,
     <<"Identifier", "CloseParenthesis", "CloseParenthesis">>,
     <<"OpenParenthesis", "OpenParenthesis", "Number", "CloseParenthesis">>,
     <<"Minus", "Minus", "Identifier">>}

Inputs ==
    ShortInputs \cup BinaryPairInputs \cup UnaryPairInputs \cup ChainInputs
        \cup BlockInputs \cup StatementInputs

(***************************************************************************)
(* State.                                                                  *)
(***************************************************************************)
VARIABLES
    text,         \* the source text, as its lexemes' kinds
    phase,        \* "new", "parsing" or "done"
    tokens,       \* Parser.tokens
    position,     \* Parser.position
    diagnostics,  \* Parser.diagnostics
    stack,        \* the active calls, innermost last
    ret           \* the value returned by the call that finished last

vars == <<text, phase, tokens, position, diagnostics, stack, ret>>

\* a call of function fn; kind and prec are its argument, vals its locals
Frame(fn, kind, prec) ==
    [fn |-> fn, pc |-> 0, kind |-> kind, prec |-> prec, vals |-> << >>]

Call(fn) == Frame(fn, "", 0)

Init ==
    /\ text \in Inputs
    /\ phase = "new"
    /\ tokens = << >>
    /\ position = 0
    /\ diagnostics = << >>
    /\ stack = << >>
    /\ ret = None

\* the filter of Parser::new: BadToken and Whitespace never reach the buffer
Kept(token) == token.kind # "BadToken" /\ token.kind # "Whitespace"

\* Parser::new
ParserNew ==
    /\ phase = "new"
    /\ phase' = "parsing"
    /\ tokens' = SelectSeq(LexerTokens(text), Kept)
    /\ position' = 0
    /\ diagnostics' = LexerDiagnostics(text)
    /\ stack' = <<Call("parse_compilation_unit")>>
    /\ UNCHANGED <<text, ret>>


(***************************************************************************)
(* Vec and Option as the parser uses them.  unwrap() of None panics: the   *)
(* model returns the token Panic in its place, which no lexer produces.    *)
(***************************************************************************)
Panic == SyntaxToken("Panic", 0, "", None)

Unwrap(opt) == IF opt.some THEN opt.value ELSE Panic

\* Vec::get, with the index counted from 0
VecGet(v, index) == IF index < Len(v) THEN Some(v[index + 1]) ELSE None

\* Vec::last
VecLast(v) == IF Len(v) = 0 THEN None ELSE Some(v[Len(v)])

\* peek clamping one index too late
PeekAtLate(pos, offset) ==
    LET index == pos + offset
    IN  IF index > Len(tokens)
        THEN Unwrap(VecLast(tokens))
        ELSE Unwrap(VecGet(tokens, index))

\* Parser::peek with the cursor at pos
PeekAt(pos, offset) ==
    LET index == pos + offset
    IN  IF index >= Len(tokens)
        THEN Unwrap(VecLast(tokens))
        ELSE Unwrap(VecGet(tokens, index))

\* Parser::peek
Peek(offset) == PeekAt(position, offset)

\* Parser::current
Current == Peek(0)

\* Parser::next_token: the token returned and the cursor afterwards
NextToken == [token |-> Current, position |-> position + 1]

\* match_token skipping the token it did not expect
MatchTokenSkipping(kind) ==
    IF Current.kind = kind
    THEN [token |-> NextToken.token,
          position |-> NextToken.position,
          diagnostics |-> diagnostics]
    ELSE [token |-> SyntaxToken(kind, Current.position, "", None),
          position |-> NextToken.position,
          diagnostics |->
              ReportUnexpectedToken(diagnostics, Current.span, Current.kind,
                                    kind)]

\* match_token making up the token without reporting
MatchTokenSilent(kind) ==
    IF Current.kind = kind
    THEN [token |-> NextToken.token,
          position |-> NextToken.position,
          diagnostics |-> diagnostics]
    ELSE [token |-> SyntaxToken(kind, Current.position, "", None),
          position |-> position,
          diagnostics |-> diagnostics]

\* match_token reporting the kinds the wrong way round
MatchTokenSwapped(kind) ==
    IF Current.kind = kind
    THEN [token |-> NextToken.token,
          position |-> NextToken.position,
          diagnostics |-> diagnostics]
    ELSE [token |-> SyntaxToken(kind, Current.position, "", None),
          position |-> position,
          diagnostics |->
              ReportUnexpectedToken(diagnostics, Current.span, kind,
                                    Current.kind)]

\* Parser::match_token: the token returned, and the cursor and the
\* diagnostics afterwards
MatchTokenResult(kind) ==
    IF Current.kind = kind
    THEN [token |-> NextToken.token,
          position |-> NextToken.position,
          diagnostics |-> diagnostics]
    ELSE [token |-> SyntaxToken(kind, Current.position, "", None),
          position |-> position,
          diagnostics |->
              ReportUnexpectedToken(diagnostics, Current.span, Current.kind,
                                    kind)]

(***************************************************************************)
(* Syntax nodes.                                                           *)
(***************************************************************************)
CompilationUnit(statement, end_of_file_token) ==
    [node |-> "CompilationUnit", statement |-> statement,
     end_of_file_token |-> end_of_file_token]

ExpressionStatementSyntax(expression) ==
    [node |-> "ExpressionStatement", expression |-> expression]

BlockStatementSyntax(open_brace_token, statements, close_brace_token) ==
    [node |-> "BlockStatement", open_brace_token |-> open_brace_token,
     statements |-> statements, close_brace_token |-> close_brace_token]

VariableDeclarationSyntax(keyword, identifier, equals, initializer) ==
    [node |-> "VariableDeclaration", keyword |-> keyword,
     identifier |-> identifier, equals |-> equals,
     initializer |-> initializer]

ForStatementSyntax(keyword, identifier, equals_token, lower_bound, to_token, upper_bound, body) ==
    [node |-> "ForStatement", keyword |-> keyword, identifier |-> identifier,
     equals_token |-> equals_token, lower_bound |-> lower_bound,
     to_token |-> to_token, upper_bound |-> upper_bound, body |-> body]

WhileStatementSyntax(keyword, condition, body) ==
    [node |-> "WhileStatement", keyword |-> keyword,
     condition |-> condition, body |-> body]

IfStatementSyntax(keyword, condition, statement, else_clause) ==
    [node |-> "IfStatement", keyword |-> keyword, condition |-> condition,
     statement |-> statement, else_clause |-> else_clause]

ElseClauseSyntax(keyword, statement) ==
    [node |-> "ElseClause", keyword |-> keyword, statement |-> statement]

AssignmentExpressionSyntax(identifier_token, equals_token, expression) ==
    [node |-> "AssignmentExpression", identifier_token |-> identifier_token,
     equals_token |-> equals_token, expression |-> expression]

UnaryExpressionSyntax(operator_token, operand) ==
    [node |-> "UnaryExpression", operator_token |-> operator_token,
     operand |-> operand]

BinaryExpressionSyntax(left, operator_token, right) ==
    [node |-> "BinaryExpression", left |-> left,
     operator_token |-> operator_token, right |-> right]

ParenthesizedExpressionSyntax(open_parenthesis_token, expression, close_parenthesis_token) ==
    [node |-> "ParenthesizedExpression",
     open_parenthesis_token |-> open_parenthesis_token,
     expression |-> expression,
     close_parenthesis_token |-> close_parenthesis_token]

LiteralExpressionSyntax(literal_token, value) ==
    [node |-> "LiteralExpression", literal_token |-> literal_token,
     value |-> value]

\* LiteralExpressionSyntax::new: the value is the one the lexer decoded
LiteralExpressionSyntaxNew(literal_token) ==
    LiteralExpressionSyntax(literal_token, literal_token.value)

NameExpressionSyntax(identifier_token) ==
    [node |-> "NameExpression", identifier_token |-> identifier_token]

\* MinskValue::Boolean
Boolean(b) == [tag |-> "Boolean", bool |-> b]

(***************************************************************************)
(* The call stack.                                                         *)
(***************************************************************************)
Top == stack[Len(stack)]

Rest == SubSeq(stack, 1, Len(stack) - 1)

Running(fn) == phase = "parsing" /\ stack # << >> /\ Top.fn = fn

\* self.match_token(kind)
Match(kind) == Frame("match_token", kind, 0)

\* the stack after the running function, now at pc with locals vals, calls
\* callee
Calling(pc, vals, callee) ==
    Rest \o <<[Top EXCEPT !.pc = pc, !.vals = vals], callee>>

\* the stack after the running function ends in a call of callee whose
\* result it returns as it is
Becoming(callee) == Append(Rest, callee)

\* the results of the calls the running function has made so far, for a
\* function that keeps them all
Got == IF Top.pc = 0 THEN << >> ELSE Append(Top.vals, ret)

\* the running function makes the next of its calls
CallNext(calls) ==
    /\ stack' = Calling(Top.pc + 1, Got, calls[Top.pc + 1])
    /\ UNCHANGED <<text, phase, tokens, position, diagnostics, ret>>

\* the running function returns node
Return(node) ==
    /\ stack' = Rest
    /\ ret' = node
    /\ UNCHANGED <<text, phase, tokens, position, diagnostics>>

\* Parser::match_token
MatchToken ==
    /\ Running("match_token")
    /\ LET r == MatchTokenResult(Top.kind)
       IN  /\ ret' = r.token
           /\ position' = r.position
           /\ diagnostics' = r.diagnostics
    /\ stack' = Rest
    /\ UNCHANGED <<text, phase, tokens>>

\* Parser::parse_compilation_unit
ParseCompilationUnit ==
    /\ Running("parse_compilation_unit")
    /\ LET got == IF Top.pc = 0 THEN << >> ELSE Append(Top.vals, ret)
       IN  CASE Top.pc = 0 ->
                 /\ stack' = Calling(1, got, Call("parse_statement"))
                 /\ UNCHANGED <<ret, phase>>
             [] Top.pc = 1 ->
                 /\ stack' = Calling(2, got, Match("EndOfFile"))
                 /\ UNCHANGED <<ret, phase>>
             [] OTHER ->
                 /\ stack' = Rest
                 /\ ret' = CompilationUnit(got[1], got[2])
                 /\ phase' = "done"
    /\ UNCHANGED <<text, tokens, position, diagnostics>>

\* the function parse_statement hands the current token kind to
StatementParser(kind) ==
    CASE kind = "OpenBrace" -> "parse_block_statement"
      [] kind \in {"LetKeyword", "VarKeyword"} -> "parse_variable_declaration"
      [] kind = "ForKeyword" -> "parse_for_statement"
      [] kind = "IfKeyword" -> "parse_if_statement"
      [] kind = "WhileKeyword" -> "parse_while_statement"
      [] OTHER -> "parse_expression_statement"

\* Parser::parse_statement
ParseStatement ==
    /\ Running("parse_statement")
    /\ stack' = Becoming(Call(StatementParser(Current.kind)))
    /\ UNCHANGED <<text, phase, tokens, position, diagnostics, ret>>

ForStatementOf(got) ==
    ForStatementSyntax(got[1], got[2], got[3], got[4], got[5], got[6], got[7])

\* Parser::parse_for_statement
ParseForStatement ==
    /\ Running("parse_for_statement")
    /\ LET calls == <<Match("ForKeyword"), Match("Identifier"), Match("Equals"),
                     Call("parse_expression"), Match("ToKeyword"),
                     Call("parse_expression"), Call("parse_statement")>>
       IN  IF Top.pc < Len(calls)
           THEN CallNext(calls)
           ELSE Return(ForStatementOf(Got))

WhileStatementOf(got) == WhileStatementSyntax(got[1], got[2], got[3])

\* Parser::parse_while_statement
ParseWhileStatement ==
    /\ Running("parse_while_statement")
    /\ LET calls == <<Match("WhileKeyword"), Call("parse_expression"),
                     Call("parse_statement")>>
       IN  IF Top.pc < Len(calls)
           THEN CallNext(calls)
           ELSE Return(WhileStatementOf(Got))

IfStatementOf(got) == IfStatementSyntax(got[1], got[2], got[3], got[4])

\* Parser::parse_if_statement
ParseIfStatement ==
    /\ Running("parse_if_statement")
    /\ LET calls == <<Match("IfKeyword"), Call("parse_expression"),
                     Call("parse_statement"), Call("parse_optional_else_clause")>>
       IN  IF Top.pc < Len(calls)
           THEN CallNext(calls)
           ELSE Return(IfStatementOf(Got))

\* Parser::parse_optional_else_clause
ParseOptionalElseClause ==
    /\ Running("parse_optional_else_clause")
    /\ CASE Top.pc = 0 /\ Current.kind # "ElseKeyword" ->
              /\ stack' = Rest
              /\ ret' = None
              /\ UNCHANGED position
         [] Top.pc = 0 /\ Current.kind = "ElseKeyword" ->
              /\ position' = NextToken.position
              /\ stack' = Calling(1, <<NextToken.token>>, Call("parse_statement"))
              /\ UNCHANGED ret
         [] OTHER ->
              /\ stack' = Rest
              /\ ret' = Some(ElseClauseSyntax(Top.vals[1], ret))
              /\ UNCHANGED position
    /\ UNCHANGED <<text, phase, tokens, diagnostics>>

\* the keyword parse_variable_declaration expects
DeclarationKeyword(kind) ==
    IF kind = "LetKeyword" THEN "LetKeyword" ELSE "VarKeyword"

VariableDeclarationOf(got) ==
    VariableDeclarationSyntax(got[1], got[2], got[3], got[4])

\* Parser::parse_variable_declaration
ParseVariableDeclaration ==
    /\ Running("parse_variable_declaration")
    /\ LET calls == <<Match(DeclarationKeyword(Current.kind)),
                     Match("Identifier"), Match("Equals"),
                     Call("parse_expression")>>
       IN  IF Top.pc < Len(calls)
           THEN CallNext(calls)
           ELSE Return(VariableDeclarationOf(Got))

\* the loop of a block stopping at the closing brace only
BlockContinuesToBrace(kind) == kind # "CloseBrace"

\* the loop condition of parse_block_statement
BlockContinues(kind) == kind # "EndOfFile" /\ kind # "CloseBrace"

\* the guard left out
GuardNever(start_token) == FALSE

\* the guard skipping a token after every statement
GuardAlways(start_token) == TRUE

\* the test of the guard against an endless loop: the statement consumed
\* no token
GuardFires(start_token) == Peek(0) = start_token

\* the top of the loop of parse_block_statement with the cursor at pos:
\* the next statement, or the closing brace.  Beside start_token the frame
\* keeps the number of diagnostics at the start of the statement, which
\* the code does not hold: the properties of the guard read it
BlockLoop(pos, open_brace_token, statements) ==
    IF BlockContinues(PeekAt(pos, 0).kind)
    THEN Calling(2, <<open_brace_token, statements, PeekAt(pos, 0),
                      Len(diagnostics)>>,
                 Call("parse_statement"))
    ELSE Calling(3, <<open_brace_token, statements>>, Match("CloseBrace"))

\* Parser::parse_block_statement
ParseBlockStatement ==
    /\ Running("parse_block_statement")
    /\ CASE Top.pc = 0 ->
              /\ stack' = Calling(1, << >>, Match("OpenBrace"))
              /\ UNCHANGED <<position, ret>>
         [] Top.pc = 1 ->
              /\ stack' = BlockLoop(position, ret, << >>)
              /\ UNCHANGED <<position, ret>>
         [] Top.pc = 2 ->
              LET statements == Append(Top.vals[2], ret)
                  pos == IF GuardFires(Top.vals[3])
                         THEN NextToken.position
                         ELSE position
              IN  /\ position' = pos
                  /\ stack' = BlockLoop(pos, Top.vals[1], statements)
                  /\ UNCHANGED ret
         [] OTHER ->
              /\ stack' = Rest
              /\ ret' = BlockStatementSyntax(Top.vals[1], Top.vals[2], ret)
              /\ UNCHANGED position
    /\ UNCHANGED <<text, phase, tokens, diagnostics>>

ExpressionStatementOf(got) == ExpressionStatementSyntax(got[1])

\* Parser::parse_expression_statement
ParseExpressionStatement ==
    /\ Running("parse_expression_statement")
    /\ LET calls == <<Call("parse_expression")>>
       IN  IF Top.pc < Len(calls)
           THEN CallNext(calls)
           ELSE Return(ExpressionStatementOf(Got))

\* Parser::parse_expression
ParseExpression ==
    /\ Running("parse_expression")
    /\ stack' = Becoming(Call("parse_assignment_expression"))
    /\ UNCHANGED <<text, phase, tokens, position, diagnostics, ret>>

\* an assignment taken at every identifier
IsAssignmentAtIdentifier == Peek(0).kind = "Identifier"

\* the test parse_assignment_expression makes on the next two tokens
IsAssignment == Peek(0).kind = "Identifier" /\ Peek(1).kind = "Equals"

\* Parser::parse_assignment_expression
ParseAssignmentExpression ==
    /\ Running("parse_assignment_expression")
    /\ CASE Top.pc = 0 /\ IsAssignment ->
              LET identifier_token == NextToken.token
                  operator_token == PeekAt(NextToken.position, 0)
              IN  /\ position' = NextToken.position + 1
                  /\ stack' = Calling(1, <<identifier_token, operator_token>>,
                                      Call("parse_assignment_expression"))
                  /\ UNCHANGED ret
         [] Top.pc = 0 /\ ~IsAssignment ->
              /\ stack' = Becoming(Frame("parse_binary_expression", "", 0))
              /\ UNCHANGED <<position, ret>>
         [] OTHER ->
              /\ stack' = Rest
              /\ ret' = AssignmentExpressionSyntax(Top.vals[1], Top.vals[2], ret)
              /\ UNCHANGED position
    /\ UNCHANGED <<text, phase, tokens, diagnostics>>

\* whether parse_binary_expression starts with a unary operator
TakesUnary(unary_operator_precedence, parent_precedence) ==
    unary_operator_precedence # 0
        /\ unary_operator_precedence >= parent_precedence

\* the loop stopping only below the parent precedence: equal precedence
\* would recurse on the right
LoopBreaksBelow(precedence, parent_precedence) ==
    precedence = 0 \/ precedence < parent_precedence

\* whether the loop of parse_binary_expression stops at an operator
LoopBreaks(precedence, parent_precedence) ==
    precedence = 0 \/ precedence <= parent_precedence

\* the loop of parse_binary_expression with left parsed
BinaryLoop(left) ==
    LET precedence == BinaryOperatorPrecedence(Current.kind)
    IN  IF LoopBreaks(precedence, Top.prec)
        THEN /\ stack' = Rest
             /\ ret' = left
             /\ UNCHANGED position
        ELSE /\ position' = NextToken.position
             /\ stack' = Calling(3, <<left, NextToken.token>>,
                                 Frame("parse_binary_expression", "", precedence))
             /\ UNCHANGED ret

\* Parser::parse_binary_expression
ParseBinaryExpression ==
    /\ Running("parse_binary_expression")
    /\ LET unary_operator_precedence == UnaryOperatorPrecedence(Current.kind)
       IN  CASE Top.pc = 0
                  /\ TakesUnary(unary_operator_precedence, Top.prec) ->
                 /\ position' = NextToken.position
                 /\ stack' = Calling(1, <<NextToken.token>>,
                                     Frame("parse_binary_expression", "",
                                           unary_operator_precedence))
                 /\ UNCHANGED ret
             [] Top.pc = 0
                  /\ ~TakesUnary(unary_operator_precedence, Top.prec) ->
                 /\ stack' = Calling(2, << >>, Call("parse_primary_expression"))
                 /\ UNCHANGED <<position, ret>>
             [] Top.pc = 1 ->
                 BinaryLoop(UnaryExpressionSyntax(Top.vals[1], ret))
             [] Top.pc = 2 ->
                 BinaryLoop(ret)
             [] OTHER ->
                 BinaryLoop(BinaryExpressionSyntax(Top.vals[1], Top.vals[2], ret))
    /\ UNCHANGED <<text, phase, tokens, diagnostics>>

\* every other token kind handed to parse_numeric_literal
PrimaryParserToNumber(kind) ==
    CASE kind = "OpenParenthesis" -> "parse_parenthesized_expression"
      [] kind \in {"TrueKeyword", "FalseKeyword"} -> "parse_boolean_expression"
      [] kind = "Identifier" -> "parse_name_expression"
      [] OTHER -> "parse_numeric_literal"

\* the function parse_primary_expression hands the current token kind to
PrimaryParser(kind) ==
    CASE kind = "OpenParenthesis" -> "parse_parenthesized_expression"
      [] kind \in {"TrueKeyword", "FalseKeyword"} -> "parse_boolean_expression"
      [] kind = "Number" -> "parse_numeric_literal"
      [] OTHER -> "parse_name_expression"

\* Parser::parse_primary_expression
ParsePrimaryExpression ==
    /\ Running("parse_primary_expression")
    /\ stack' = Becoming(Call(PrimaryParser(Current.kind)))
    /\ UNCHANGED <<text, phase, tokens, position, diagnostics, ret>>

\* Parser::parse_parenthesized_expression
ParseParenthesizedExpression ==
    /\ Running("parse_parenthesized_expression")
    /\ CASE Top.pc = 0 ->
              /\ position' = NextToken.position
              /\ stack' = Calling(1, <<NextToken.token>>, Call("parse_expression"))
              /\ UNCHANGED ret
         [] Top.pc = 1 ->
              /\ stack' = Calling(2, Append(Top.vals, ret),
                                  Match("CloseParenthesis"))
              /\ UNCHANGED <<position, ret>>
         [] OTHER ->
              /\ stack' = Rest
              /\ ret' = ParenthesizedExpressionSyntax(Top.vals[1], Top.vals[2], ret)
              /\ UNCHANGED position
    /\ UNCHANGED <<text, phase, tokens, diagnostics>>

\* Parser::parse_boolean_expression
ParseBooleanExpression ==
    /\ Running("parse_boolean_expression")
    /\ IF Top.pc = 0
       THEN LET is_true == Current.kind = "TrueKeyword"
            IN  /\ stack' = Calling(1, <<is_true>>,
                                    IF is_true
                                    THEN Match("TrueKeyword")
                                    ELSE Match("FalseKeyword"))
                /\ UNCHANGED ret
       ELSE /\ stack' = Rest
            /\ ret' = LiteralExpressionSyntax(ret, Some(Boolean(Top.vals[1])))
    /\ UNCHANGED <<text, phase, tokens, position, diagnostics>>

NameExpressionOf(got) == NameExpressionSyntax(got[1])

\* Parser::parse_name_expression
ParseNameExpression ==
    /\ Running("parse_name_expression")
    /\ LET calls == <<Match("Identifier")>>
       IN  IF Top.pc < Len(calls)
           THEN CallNext(calls)
           ELSE Return(NameExpressionOf(Got))

NumericLiteralOf(got) == LiteralExpressionSyntaxNew(got[1])

\* Parser::parse_numeric_literal
ParseNumericLiteral ==
    /\ Running("parse_numeric_literal")
    /\ LET calls == <<Match("Number")>>
       IN  IF Top.pc < Len(calls)
           THEN CallNext(calls)
           ELSE Return(NumericLiteralOf(Got))

Next ==
    \/ ParserNew
    \/ MatchToken
    \/ ParseCompilationUnit
    \/ ParseStatement
    \/ ParseForStatement
    \/ ParseWhileStatement
    \/ ParseIfStatement
    \/ ParseOptionalElseClause
    \/ ParseVariableDeclaration
    \/ ParseBlockStatement
    \/ ParseExpressionStatement
    \/ ParseExpression
    \/ ParseAssignmentExpression
    \/ ParseBinaryExpression
    \/ ParsePrimaryExpression
    \/ ParseParenthesizedExpression
    \/ ParseBooleanExpression
    \/ ParseNameExpression
    \/ ParseNumericLiteral

Spec == Init /\ [][Next]_vars

\* the parser is one sequential thread: while a call is active, its next
\* step is taken
FairSpec == Spec /\ WF_vars(Next)

(***************************************************************************)
(* Properties.                                                             *)
(***************************************************************************)
Done == phase = "done"

\* the expression of the expression statement the parser returned
ParsedExpression == ret.statement.expression

IsExpressionStatement ==
    ret.node = "CompilationUnit" /\ ret.statement.node = "ExpressionStatement"

\* the name expression of an identifier a at offset position
NameAt(position_) ==
    NameExpressionSyntax(SyntaxToken("Identifier", position_, "a", None))

\* the token of operator kind at offset position
OperatorAt(kind, position_) == SyntaxToken(kind, position_, TextOf(kind), None)

\* a op1 b op2 c grouped to the left, and to the right
LeftGrouped(op1, op2) ==
    BinaryExpressionSyntax(
        BinaryExpressionSyntax(NameAt(0), OperatorAt(op1, 1), NameAt(2)),
        OperatorAt(op2, 3), NameAt(4))

RightGrouped(op1, op2) ==
    BinaryExpressionSyntax(
        NameAt(0), OperatorAt(op1, 1),
        BinaryExpressionSyntax(NameAt(2), OperatorAt(op2, 3), NameAt(4)))

\* C1: parsing a op1 b op2 c, for every pair of binary operators, yields
\* an expression statement of Binary(Binary(a, op1, b), op2, c) when the
\* precedence of op1 is at least that of op2 and of
\* Binary(a, op1, Binary(b, op2, c)) otherwise, with no diagnostics
C1_BinaryPrecedence ==
    \A op1 \in BinaryOperators, op2 \in BinaryOperators :
        (Done /\ text = BinaryPairInput(op1, op2)) =>
            /\ IsExpressionStatement
            /\ ParsedExpression =
                   IF BinaryOperatorPrecedence(op1) >= BinaryOperatorPrecedence(op2)
                   THEN LeftGrouped(op1, op2)
                   ELSE RightGrouped(op1, op2)
            /\ (BinaryOperatorPrecedence(op1) = BinaryOperatorPrecedence(op2)
                    => ParsedExpression.left.node = "BinaryExpression")
            /\ diagnostics = << >>

\* a - b + c parsed, grouped to the left
C1_Witness ==
    /\ Done
    /\ text = BinaryPairInput("Minus", "Plus")
    /\ ParsedExpression = LeftGrouped("Minus", "Plus")

\* u a op b with the unary operator applied to a alone, and to a op b
UnaryOnOperand(u, op) ==
    BinaryExpressionSyntax(
        UnaryExpressionSyntax(OperatorAt(u, 0), NameAt(1)),
        OperatorAt(op, 2), NameAt(3))

UnaryOnBinary(u, op) ==
    UnaryExpressionSyntax(
        OperatorAt(u, 0),
        BinaryExpressionSyntax(NameAt(1), OperatorAt(op, 2), NameAt(3)))

\* C2: parsing u a op b, for every unary operator u and binary operator
\* op, yields Binary(Unary(u, a), op, b) when the unary precedence of u is
\* at least the binary precedence of op and Unary(u, Binary(a, op, b))
\* otherwise; with the precedences of the grammar it is always the former
C2_UnaryPrecedence ==
    \A u \in UnaryOperators, op \in BinaryOperators :
        (Done /\ text = UnaryPairInput(u, op)) =>
            /\ IsExpressionStatement
            /\ ParsedExpression =
                   IF UnaryOperatorPrecedence(u) >= BinaryOperatorPrecedence(op)
                   THEN UnaryOnOperand(u, op)
                   ELSE UnaryOnBinary(u, op)
            /\ ParsedExpression = UnaryOnOperand(u, op)
            /\ diagnostics = << >>

\* - a * b parsed as (- a) * b
C2_Witness ==
    /\ Done
    /\ text = UnaryPairInput("Minus", "Star")
    /\ ParsedExpression = UnaryOnOperand("Minus", "Star")

\* no unwrap() the parser can reach panics: the buffer is not empty, so
\* the tokens peek hands out are tokens of the buffer
NoAbort ==
    phase # "new" =>
        /\ tokens # << >>
        /\ Peek(0) # Panic
        /\ Peek(1) # Panic

\* the active calls of parse_block_statement
BlockFrames ==
    {i \in 1..Len(stack) :
        stack[i].fn = "parse_block_statement" /\ stack[i].pc >= 2}

\* every call below another one that is not its first match_token has
\* consumed a token of its own, and so has every finished turn of the
\* loop of a block: the calls are at most two per consumed token, the
\* statements of a block at most one
Progress ==
    /\ Len(stack) <= 2 * position + 5
    /\ \A i \in BlockFrames : Len(stack[i].vals[2]) <= position
    /\ position <= Len(tokens)

\* C3: on every token buffer (no Whitespace, no BadToken, one EndOfFile,
\* at the end) parse_compilation_unit ends and returns a CompilationUnit:
\* no step aborts, every call and every turn of a loop follows the
\* consumption of a token, and the parser reaches its end
C3_ParsingTerminates ==
    /\ [](NoAbort /\ Progress)
    /\ [](Done => ret.node = "CompilationUnit" /\ stack = << >>)
    /\ <>Done

\* a block whose statement consumed nothing was parsed to the end
C3_Witness ==
    /\ Done
    /\ text = <<"OpenBrace", "CloseParenthesis", "CloseBrace">>
    /\ position = Len(tokens)
    /\ ret.node = "CompilationUnit"

\* the token of the buffer under the cursor, the last one when the
\* cursor is past the end
TokenAtCursor ==
    IF position < Len(tokens) THEN tokens[position + 1] ELSE tokens[Len(tokens)]

\* C4: match_token(expected_kind) on a current token of that kind returns
\* the token, moves the cursor by exactly one and adds no diagnostic;
\* otherwise it leaves the cursor, adds exactly one unexpected-token
\* diagnostic with the current token's span, the current token's kind and
\* expected_kind, and returns a token of expected_kind with empty text and
\* no value at the current token's position
C4_MatchToken ==
    [][Running("match_token") =>
          LET expected_kind == Top.kind
              current == TokenAtCursor
          IN  IF current.kind = expected_kind
              THEN /\ ret' = current
                   /\ position' = position + 1
                   /\ diagnostics' = diagnostics
              ELSE /\ position' = position
                   /\ Len(diagnostics') = Len(diagnostics) + 1
                   /\ SubSeq(diagnostics', 1, Len(diagnostics)) = diagnostics
                   /\ diagnostics'[Len(diagnostics')] =
                          [span |-> current.span,
                           message |-> "unexpected_token",
                           actual |-> current.kind,
                           expected |-> expected_kind]
                   /\ ret'.kind = expected_kind
                   /\ ret'.text = ""
                   /\ ret'.value = None
                   /\ ret'.position = current.position]_vars

IsToken(v) == "kind" \in DOMAIN v

\* match_token(Identifier) has just met ")" and returned a token made up
C4_Witness ==
    /\ phase = "parsing"
    /\ text = <<"CloseParenthesis">>
    /\ position = 0
    /\ Len(diagnostics) = 1
    /\ diagnostics[1].expected = "Identifier"
    /\ IsToken(ret)
    /\ ret = SyntaxToken("Identifier", 0, "", None)

\* the two diagnostics of parsing ")"
UnexpectedCloseParenthesis(expected) ==
    UnexpectedToken([start |-> 0, length |-> 1], "CloseParenthesis", expected)

\* C5, as the specification states it: parsing ")" alone reports exactly one unexpected-token
\* diagnostic
C5_ExactlyOneDiagnostic ==
    (Done /\ text = <<"CloseParenthesis">>) => Len(diagnostics) = 1

\* C5: parsing ")" alone reports exactly two unexpected-token diagnostics,
\* both at the ")": the primary expression expected an Identifier there,
\* and parse_compilation_unit expected EndOfFile there, as no token was
\* consumed
C5_TwoDiagnostics ==
    (Done /\ text = <<"CloseParenthesis">>) =>
        /\ diagnostics = <<UnexpectedCloseParenthesis("Identifier"),
                           UnexpectedCloseParenthesis("EndOfFile")>>
        /\ position = 0

\* ")" was parsed to the end
C5_Witness ==
    /\ Done
    /\ text = <<"CloseParenthesis">>
    /\ Len(diagnostics) = 2

\* peek at every cursor position, also past the end, and every offset:
\* the token at position + offset, or the last one, and no panic
C6_PeekTotal ==
    phase # "new" =>
        /\ tokens # << >>
        /\ tokens[Len(tokens)].kind = "EndOfFile"
        /\ \A pos \in 0..(Len(tokens) + 1), offset \in 0..MaxOffset :
               /\ PeekAt(pos, offset) # Panic
               /\ PeekAt(pos, offset) =
                      IF pos + offset < Len(tokens)
                      THEN tokens[pos + offset + 1]
                      ELSE tokens[Len(tokens)]
        /\ \A offset \in 0..MaxOffset :
               /\ Peek(offset) = PeekAt(position, offset)
               /\ position + offset >= Len(tokens)
                      => Peek(offset).kind = "EndOfFile"

\* the steps that only look at the current token: parse_statement and
\* parse_primary_expression choose the function to run from peek(0)
OnlyPeeks == Running("parse_statement") \/ Running("parse_primary_expression")

\* C6: peek(offset) is read-only and total: a step that only peeks leaves
\* the cursor, the buffer and the diagnostics as they are, and at every
\* cursor position and for every offset peek returns
\* tokens[position + offset] when that index is inside the buffer and the
\* last token, which is EndOfFile, otherwise, never out of bounds
C6_PeekClamps ==
    /\ []C6_PeekTotal
    /\ [][OnlyPeeks => UNCHANGED <<tokens, position, diagnostics>>]_vars

\* the cursor is past the end of a buffer of three tokens and peek still
\* answers EndOfFile
C6_Witness ==
    /\ Done
    /\ Len(tokens) = 3
    /\ position = Len(tokens)
    /\ Peek(0).kind = "EndOfFile"
    /\ Peek(MaxOffset) = tokens[Len(tokens)]

\* the unexpected-token diagnostics that expected EndOfFile
IsEndOfFileDemand(d) ==
    d.message = "unexpected_token" /\ d.expected = "EndOfFile"

\* C7: parse_compilation_unit parses one statement and then demands
\* EndOfFile: when tokens other than EndOfFile remain, exactly one
\* unexpected-token diagnostic expecting EndOfFile is added, last, at the
\* first remaining token, and the cursor stays there; otherwise none is
\* added; either way the unit's end-of-file token has kind EndOfFile
C7_DemandsEndOfFile ==
    Done =>
        /\ ret.node = "CompilationUnit"
        /\ ret.end_of_file_token.kind = "EndOfFile"
        /\ IF TokenAtCursor.kind = "EndOfFile"
           THEN /\ position = Len(tokens)
                /\ ret.end_of_file_token = tokens[Len(tokens)]
                /\ SelectSeq(diagnostics, IsEndOfFileDemand) = << >>
           ELSE /\ position < Len(tokens) - 1
                /\ ret.end_of_file_token =
                       SyntaxToken("EndOfFile", TokenAtCursor.position, "", None)
                /\ SelectSeq(diagnostics, IsEndOfFileDemand) =
                       <<UnexpectedToken(TokenAtCursor.span, TokenAtCursor.kind,
                                         "EndOfFile")>>
                /\ IsEndOfFileDemand(diagnostics[Len(diagnostics)])

\* 1 1 1: the statement is the first number, two tokens remain
C7_Witness ==
    /\ Done
    /\ text = <<"Number", "Number", "Number">>
    /\ position = 1
    /\ ret.statement.expression.node = "LiteralExpression"
    /\ Len(diagnostics) = 1
    /\ ret.end_of_file_token.text = ""

RECURSIVE ChainSpine(_, _, _)
\* e is the chain of assignments to the identifiers k..n of the buffer,
\* nested to the right, around an expression that is no assignment
ChainSpine(e, k, n) ==
    IF k > n
    THEN e.node # "AssignmentExpression"
    ELSE /\ e.node = "AssignmentExpression"
         /\ e.identifier_token = tokens[2 * k - 1]
         /\ e.identifier_token.kind = "Identifier"
         /\ e.equals_token = tokens[2 * k]
         /\ e.equals_token.kind = "Equals"
         /\ ChainSpine(e.expression, k + 1, n)

\* the literal of the number 1 at offset position
NumberAt(position_) ==
    LiteralExpressionSyntax(
        SyntaxToken("Number", position_, "1", ValueOf("Number")),
        ValueOf("Number"))

\* a = b = 3
AssignmentOfAssignment ==
    AssignmentExpressionSyntax(
        SyntaxToken("Identifier", 0, "a", None), OperatorAt("Equals", 1),
        AssignmentExpressionSyntax(
            SyntaxToken("Identifier", 2, "a", None), OperatorAt("Equals", 3),
            NumberAt(4)))

\* the step parse_assignment_expression starts with
AssignmentDecision ==
    (Running("parse_assignment_expression") /\ Top.pc = 0) =>
        IF /\ TokenAtCursor.kind = "Identifier"
           /\ tokens[position + 2].kind = "Equals"
        THEN /\ position' = position + 2
             /\ stack'[Len(stack')] = Call("parse_assignment_expression")
        ELSE /\ position' = position
             /\ stack' = Append(Rest, Frame("parse_binary_expression", "", 0))

\* C8: assignment is right-associative and taken only at an Identifier
\* followed at once by Equals: x1 = ... = xn = e yields
\* Assignment(x1, ... Assignment(xn, e)) with no diagnostics, a = b = 3
\* yields Assignment(a, Assignment(b, Literal(3))), and anywhere else
\* parse_assignment_expression goes on to parse_binary_expression(0)
C8_AssignmentChains ==
    /\ [](\A n \in 1..MaxChain, e \in PlainExpressions :
            (Done /\ text = ChainInput(n, e)) =>
                /\ IsExpressionStatement
                /\ ChainSpine(ParsedExpression, 1, n)
                /\ diagnostics = << >>
                /\ position = Len(tokens))
    /\ []((Done /\ text = ChainInput(2, <<"Number">>))
            => ParsedExpression = AssignmentOfAssignment)
    /\ [][AssignmentDecision]_vars

\* a = b = 1 parsed
C8_Witness ==
    /\ Done
    /\ text = <<"Identifier", "Equals", "Identifier", "Equals", "Number">>
    /\ ParsedExpression.expression.node = "AssignmentExpression"
    /\ ParsedExpression.expression.expression = NumberAt(4)

\* let a = 1
LetDeclaration == <<"LetKeyword", "Identifier", "Equals", "Number">>

RECURSIVE Repeated(_, _)
Repeated(s, n) == IF n = 0 THEN << >> ELSE s \o Repeated(s, n - 1)

\* { let a = 1 ... let a = 1   with n declarations and no closing brace
UnterminatedBlock(n) == <<"OpenBrace">> \o Repeated(LetDeclaration, n)

\* the i-th declaration of an unterminated block, from the buffer
DeclarationAt(i) ==
    VariableDeclarationSyntax(
        tokens[4 * i - 2], tokens[4 * i - 1], tokens[4 * i],
        LiteralExpressionSyntax(tokens[4 * i + 1], ValueOf("Number")))

\* the steps of the loop of parse_block_statement: it goes on to the
\* closing brace at EndOfFile as at CloseBrace, else to a statement, and
\* keeps the statements it has; the block returned holds them all
BlockLoopStep ==
    /\ (Running("parse_block_statement") /\ Top.pc \in {1, 2}) =>
           LET next == IF position' < Len(tokens)
                       THEN tokens[position' + 1]
                       ELSE tokens[Len(tokens)]
               statements == IF Top.pc = 1
                             THEN << >>
                             ELSE Append(Top.vals[2], ret)
           IN  /\ Len(stack') = Len(stack) + 1
               /\ stack'[Len(stack')] =
                      IF next.kind \in {"EndOfFile", "CloseBrace"}
                      THEN Match("CloseBrace")
                      ELSE Call("parse_statement")
               /\ stack'[Len(stack)].vals[2] = statements
    /\ (Running("parse_block_statement") /\ Top.pc = 3) =>
           /\ ret'.node = "BlockStatement"
           /\ ret'.statements = Top.vals[2]
           /\ ret'.close_brace_token = ret

\* C9: parsing { let x = 1 returns a Block of exactly that
\* VariableDeclaration with a made-up closing brace and reports the
\* missing brace (actual EndOfFile, expected CloseBrace); the loop of a
\* block stops at EndOfFile as at CloseBrace, so a block without its
\* brace returns every statement parsed so far
C9_UnterminatedBlock ==
    /\ [](\A n \in 0..MaxBlock :
            (Done /\ text = UnterminatedBlock(n)) =>
                LET end_of_file == tokens[Len(tokens)]
                IN  /\ ret.statement.node = "BlockStatement"
                    /\ ret.statement.open_brace_token = tokens[1]
                    /\ ret.statement.statements = [i \in 1..n |-> DeclarationAt(i)]
                    /\ ret.statement.close_brace_token =
                           SyntaxToken("CloseBrace", end_of_file.position, "", None)
                    /\ diagnostics =
                           <<UnexpectedToken(end_of_file.span, "EndOfFile",
                                             "CloseBrace")>>)
    /\ [][BlockLoopStep]_vars

\* { let a = 1 parsed
C9_Witness ==
    /\ Done
    /\ text = <<"OpenBrace", "LetKeyword", "Identifier", "Equals", "Number">>
    /\ Len(ret.statement.statements) = 1
    /\ ret.statement.statements[1].node = "VariableDeclaration"
    /\ ret.statement.close_brace_token.text = ""
    /\ Len(diagnostics) = 1

\* s is the start of t
IsPrefix(s, t) == Len(s) <= Len(t) /\ SubSeq(t, 1, Len(s)) = s

\* the diagnostic of a missing token at the end of the text "for"
MissingAfterFor(expected) ==
    UnexpectedToken([start |-> 3, length |-> 0], "EndOfFile", expected)

\* the diagnostics of the lexer come first, as the lexer left them
LexerFirst ==
    phase # "new" =>
        LET n == Len(LexerDiagnostics(text))
        IN  /\ IsPrefix(LexerDiagnostics(text), diagnostics)
            /\ \A i \in 1..Len(diagnostics) :
                   (diagnostics[i].message = "unexpected_token") = (i > n)

\* C10: the diagnostics are append-only and in the order of detection:
\* every step leaves the list it found as a prefix of the list it leaves,
\* equal diagnostics are kept apart (parsing "for" alone reports the
\* missing Identifier four times), and the lexer's diagnostics precede
\* the parser's
C10_AppendOnly ==
    /\ [][IsPrefix(diagnostics, diagnostics')]_vars
    /\ []LexerFirst
    /\ []((Done /\ text = <<"ForKeyword">>) =>
            diagnostics = <<MissingAfterFor("Identifier"),
                            MissingAfterFor("Equals"),
                            MissingAfterFor("Identifier"),
                            MissingAfterFor("ToKeyword"),
                            MissingAfterFor("Identifier"),
                            MissingAfterFor("Identifier")>>)

\* a bad character, then "for": the lexer's diagnostic, then the
\* parser's, two of them equal
C10_Witness ==
    /\ Done
    /\ text = <<"BadToken", "ForKeyword">>
    /\ Len(diagnostics) = 7
    /\ diagnostics[1].message = "bad_character"
    /\ diagnostics[2] = diagnostics[4]

\* a statement of a block has just been parsed and left the cursor on the
\* token it started at: the guard is about to skip that token
GuardAboutToFire ==
    /\ Running("parse_block_statement")
    /\ Top.pc = 2
    /\ position < Len(tokens)
    /\ tokens[position + 1] = Top.vals[3]

\* C11: whenever the guard of parse_block_statement skips a token, the
\* statement parsed in that turn of the loop added at least one
\* diagnostic, the first of them at the token skipped (an Identifier was
\* expected there); and the guard skips only when the statement consumed
\* nothing
C11_GuardAfterDiagnostic ==
    /\ [](GuardAboutToFire =>
            /\ Len(diagnostics) > Top.vals[4]
            /\ diagnostics[Top.vals[4] + 1] =
                   UnexpectedToken(Top.vals[3].span, Top.vals[3].kind,
                                   "Identifier"))
    /\ [][(Running("parse_block_statement") /\ Top.pc = 2) =>
             IF GuardAboutToFire
             THEN position' = position + 1
             ELSE position' = position]_vars

\* { = : the statement at "=" consumed nothing and reported it
C11_Witness ==
    /\ GuardAboutToFire
    /\ text = <<"OpenBrace", "Equals">>
    /\ position = 1
    /\ Len(diagnostics) = 1
    /\ Top.vals[4] = 0

\* the kinds that, alone in a text, reach parse_primary_expression at
\* once and are none of "(", true, false, a number or an identifier
FallbackKinds ==
    {"CloseParenthesis", "CloseBrace", "Equals", "ToKeyword", "ElseKeyword"}

\* a text of one token of a fallback kind was parsed to the end
FallbackParsed == Done /\ Len(text) = 1 /\ text[1] \in FallbackKinds

\* the token match_token makes up at the current token
SyntheticAtCursor(kind) == SyntaxToken(kind, Current.position, "", None)

RECURSIVE TreeTokens(_), TokensOfAll(_)
\* the tokens a tree holds, read left to right; n is a token, an Option
\* or a node
TreeTokens(n) ==
    IF "kind" \in DOMAIN n THEN <<n>>
    ELSE IF "some" \in DOMAIN n
    THEN (IF n.some THEN TreeTokens(n.value) ELSE << >>)
    ELSE CASE n.node = "CompilationUnit" ->
                TreeTokens(n.statement) \o <<n.end_of_file_token>>
           [] n.node = "ExpressionStatement" -> TreeTokens(n.expression)
           [] n.node = "BlockStatement" ->
                <<n.open_brace_token>> \o TokensOfAll(n.statements)
                    \o <<n.close_brace_token>>
           [] n.node = "VariableDeclaration" ->
                <<n.keyword, n.identifier, n.equals>>
                    \o TreeTokens(n.initializer)
           [] n.node = "ForStatement" ->
                <<n.keyword, n.identifier, n.equals_token>>
                    \o TreeTokens(n.lower_bound) \o <<n.to_token>>
                    \o TreeTokens(n.upper_bound) \o TreeTokens(n.body)
           [] n.node = "WhileStatement" ->
                <<n.keyword>> \o TreeTokens(n.condition) \o TreeTokens(n.body)
           [] n.node = "IfStatement" ->
                <<n.keyword>> \o TreeTokens(n.condition)
                    \o TreeTokens(n.statement) \o TreeTokens(n.else_clause)
           [] n.node = "ElseClause" ->
                <<n.keyword>> \o TreeTokens(n.statement)
           [] n.node = "AssignmentExpression" ->
                <<n.identifier_token, n.equals_token>>
                    \o TreeTokens(n.expression)
           [] n.node = "UnaryExpression" ->
                <<n.operator_token>> \o TreeTokens(n.operand)
           [] n.node = "BinaryExpression" ->
                TreeTokens(n.left) \o <<n.operator_token>>
                    \o TreeTokens(n.right)
           [] n.node = "ParenthesizedExpression" ->
                <<n.open_parenthesis_token>> \o TreeTokens(n.expression)
                    \o <<n.close_parenthesis_token>>
           [] n.node = "LiteralExpression" -> <<n.literal_token>>
           [] n.node = "NameExpression" -> <<n.identifier_token>>

\* the tokens of a list of statements
TokensOfAll(nodes) ==
    IF nodes = << >> THEN << >>
    ELSE TreeTokens(Head(nodes)) \o TokensOfAll(Tail(nodes))

\* a token match_token made up: it has no text and is none of the buffer
IsSynthetic(token) ==
    /\ token.text = ""
    /\ \A i \in 1..Len(tokens) : tokens[i] # token

\* how many diagnostics the parser added to the lexer's
ParserDiagnostics == Len(diagnostics) - Len(LexerDiagnostics(text))

\* C13: when parse_compilation_unit has returned and the parser added no
\* diagnostic, the cursor is the length of the token buffer and the
\* tokens of the tree, left to right, are the buffer itself: none skipped,
\* none twice, none made up.  In every case the tree holds as many made-up
\* tokens as the parser added diagnostics
C13_TreeIsTheBuffer ==
    Done =>
        /\ ParserDiagnostics = 0 =>
               /\ position = Len(tokens)
               /\ TreeTokens(ret) = tokens
        /\ Len(SelectSeq(TreeTokens(ret), IsSynthetic)) = ParserDiagnostics

\* for a = 1 to 1 { a } was parsed without a diagnostic
C13_Witness ==
    /\ Done
    /\ text = <<"ForKeyword", "Identifier", "Equals", "Number", "ToKeyword",
                "Number", "OpenBrace", "Identifier", "CloseBrace">>
    /\ diagnostics = << >>
    /\ position = 10
    /\ Len(TreeTokens(ret)) = 10

\* { = was parsed: the guard skipped "=", and the tree holds {, a made-up
\* Identifier, a made-up } and EndOfFile
C13_SkippedToken ==
    /\ Done
    /\ text = <<"OpenBrace", "Equals">>
    /\ ParserDiagnostics = 2
    /\ Len(TreeTokens(ret)) = 4

=============================================================================
